---- MODULE Spec2Model ----
(***************************************************************************)
(* Model of notebooks/trees/gini-impurity.ipynb: the function gini(y),     *)
(*                                                                         *)
(*     _, counts = np.unique(y, return_counts=True)                        *)
(*     p = counts / len(y)                                                 *)
(*     return 1 - np.sum( p**2 )                                           *)
(*                                                                         *)
(* The arithmetic of the function is IEEE-754 binary64 (numpy float64),    *)
(* round-to-nearest-even.  It is modelled bit-exactly: a float is a sign,  *)
(* a 53-bit significand and an exponent, and the significand is a natural  *)
(* number kept as a little-endian sequence of 12-bit limbs.                *)
(***************************************************************************)
EXTENDS Integers, Sequences, FiniteSets

\* ------------------------------------------------------------------ bounds
\* longest label sequence passed to gini
MaxLen == 5
\* number of distinct label values available to the caller
NumLabels == 3

\* ------------------------------------------------- natural numbers (limbs)
LimbBits == 12
Base == 4096

RECURSIVE Pow2(_)
Pow2(k) == IF k = 0 THEN 1 ELSE 2 * Pow2(k - 1)

RECURSIVE BNorm(_)
\* drop the most significant zero limbs; zero is the empty sequence
BNorm(a) ==
    IF a = <<>> THEN <<>>
    ELSE IF a[Len(a)] = 0 THEN BNorm(SubSeq(a, 1, Len(a) - 1))
    ELSE a

RECURSIVE BFromInt(_)
BFromInt(n) == IF n = 0 THEN <<>> ELSE <<n % Base>> \o BFromInt(n \div Base)

BLimb(a, i) == IF i >= 1 /\ i <= Len(a) THEN a[i] ELSE 0

RECURSIVE BAddC(_, _, _, _)
\* limbs i.. of a + b with incoming carry c
BAddC(a, b, i, c) ==
    IF i > Len(a) /\ i > Len(b)
    THEN (IF c = 0 THEN <<>> ELSE <<c>>)
    ELSE LET s == BLimb(a, i) + BLimb(b, i) + c
         IN  <<s % Base>> \o BAddC(a, b, i + 1, s \div Base)

BAdd(a, b) == BNorm(BAddC(a, b, 1, 0))

RECURSIVE BSubC(_, _, _, _)
\* limbs i.. of a - b with incoming borrow c; requires a >= b
BSubC(a, b, i, c) ==
    IF i > Len(a) THEN <<>>
    ELSE LET d == BLimb(a, i) - BLimb(b, i) - c
         IN  IF d < 0 THEN <<d + Base>> \o BSubC(a, b, i + 1, 1)
             ELSE <<d>> \o BSubC(a, b, i + 1, 0)

BSub(a, b) == BNorm(BSubC(a, b, 1, 0))

RECURSIVE BCmpFrom(_, _, _)
BCmpFrom(a, b, i) ==
    IF i = 0 THEN 0
    ELSE IF a[i] < b[i] THEN -1
    ELSE IF a[i] > b[i] THEN 1
    ELSE BCmpFrom(a, b, i - 1)

\* -1, 0, 1 as a < b, a = b, a > b (both normalised)
BCmp(a, b) ==
    IF Len(a) < Len(b) THEN -1
    ELSE IF Len(a) > Len(b) THEN 1
    ELSE BCmpFrom(a, b, Len(a))

RECURSIVE BMulSmallC(_, _, _, _)
\* a * s for 0 <= s <= Base, limbs i.. with carry c
BMulSmallC(a, s, i, c) ==
    IF i > Len(a)
    THEN (IF c = 0 THEN <<>> ELSE <<c % Base>> \o (IF c \div Base = 0 THEN <<>> ELSE <<c \div Base>>))
    ELSE LET t == a[i] * s + c
         IN  <<t % Base>> \o BMulSmallC(a, s, i + 1, t \div Base)

BMulSmall(a, s) == BNorm(BMulSmallC(a, s, 1, 0))

Zeros(k) == [i \in 1..k |-> 0]

RECURSIVE BMulFrom(_, _, _)
\* sum over j >= i of a * b[j] * Base^(j-1)
BMulFrom(a, b, i) ==
    IF i > Len(b) THEN <<>>
    ELSE BAdd(BNorm(Zeros(i - 1) \o BMulSmall(a, b[i])), BMulFrom(a, b, i + 1))

BMul(a, b) == IF a = <<>> \/ b = <<>> THEN <<>> ELSE BMulFrom(a, b, 1)

\* a * 2^k
BShl(a, k) ==
    IF a = <<>> THEN <<>>
    ELSE Zeros(k \div LimbBits) \o BMulSmall(a, Pow2(k % LimbBits))

RECURSIVE BDivSmallFrom(_, _, _, _)
\* short division of limbs i..1 of a by d, remainder r carried in;
\* result <<quotient limbs (little-endian), remainder>>
BDivSmallFrom(a, d, i, r) ==
    IF i = 0 THEN <<<<>>, r>>
    ELSE LET t    == r * Base + a[i]
             rest == BDivSmallFrom(a, d, i - 1, t % d)
         IN  <<rest[1] \o <<t \div d>>, rest[2]>>

BDivSmallQ(a, d) == BNorm(BDivSmallFrom(a, d, Len(a), 0)[1])
BDivSmallR(a, d) == BDivSmallFrom(a, d, Len(a), 0)[2]

RECURSIVE SmallBitLen(_)
SmallBitLen(n) == IF n = 0 THEN 0 ELSE 1 + SmallBitLen(n \div 2)

BBitLen(a) ==
    IF a = <<>> THEN 0 ELSE (Len(a) - 1) * LimbBits + SmallBitLen(a[Len(a)])

\* bit i (0 = least significant) of a
BBit(a, i) == (BLimb(a, (i \div LimbBits) + 1) \div Pow2(i % LimbBits)) % 2

\* floor(a / 2^k)
BShr(a, k) ==
    LET w == k \div LimbBits
    IN  IF w >= Len(a) THEN <<>>
        ELSE BDivSmallQ(SubSeq(a, w + 1, Len(a)), Pow2(k % LimbBits))

\* some bit below bit k of a is set
BLowNonZero(a, k) ==
    \/ \E i \in 1..(k \div LimbBits) : BLimb(a, i) # 0
    \/ BLimb(a, (k \div LimbBits) + 1) % Pow2(k % LimbBits) # 0

BOdd(a) == BLimb(a, 1) % 2 = 1

\* --------------------------------------------------- IEEE-754 binary64
\* A float is (-1)^sign * m * 2^e with m = 0 or 2^52 <= m < 2^53, so that
\* equal floats are equal records.  The exponent is unbounded: the values
\* of gini lie within [2^-130, 1], far from the subnormal and overflow ranges.
MantBits == 53

FZero == [sign |-> 0, m |-> <<>>, e |-> 0]

\* nearest float to mag * 2^e (round half to even), with the given sign
FRound(sign, mag, e) ==
    LET L == BBitLen(mag)
    IN  IF mag = <<>> THEN FZero
        ELSE IF L <= MantBits
        THEN [sign |-> sign, m |-> BShl(mag, MantBits - L), e |-> e - (MantBits - L)]
        ELSE LET r      == L - MantBits
                 q      == BShr(mag, r)
                 half   == BBit(mag, r - 1) = 1
                 sticky == BLowNonZero(mag, r - 1)
                 up     == half /\ (sticky \/ BOdd(q))
                 q1     == IF up THEN BAdd(q, <<1>>) ELSE q
             IN  IF BBitLen(q1) > MantBits
                 THEN [sign |-> sign, m |-> BShr(q1, 1), e |-> e + r + 1]
                 ELSE [sign |-> sign, m |-> q1, e |-> e + r]

\* conversion of a non-negative integer (exact below 2^53)
FFromInt(n) == FRound(0, BFromInt(n), 0)

FOne == FFromInt(1)

\* number of fraction bits the quotient of FDivInt is developed to
DivShift == 72

\* float64(c) / float64(n) for integers c >= 0, n > 0 below 2^19:
\* the quotient floor(c * 2^72 / n) with a sticky bit for the remainder
FDivInt(c, n) ==
    LET num == BShl(BFromInt(c), DivShift)
        q   == BDivSmallQ(num, n)
        r   == BDivSmallR(num, n)
    IN  FRound(0, BAdd(BShl(q, 1), IF r = 0 THEN <<>> ELSE <<1>>), 0 - (DivShift + 1))

\* a * b
FMul(a, b) == FRound((a.sign + b.sign) % 2, BMul(a.m, b.m), a.e + b.e)

Min(a, b) == IF a <= b THEN a ELSE b

\* significand of a at exponent e <= a.e
FAlign(a, e) == BShl(a.m, a.e - e)

FExpMin(a, b) ==
    IF a.m = <<>> THEN b.e ELSE IF b.m = <<>> THEN a.e ELSE Min(a.e, b.e)

\* -1, 0, 1 comparison of magnitudes
FCmpMag(a, b) ==
    LET e == FExpMin(a, b) IN BCmp(FAlign(a, e), FAlign(b, e))

\* a + b for a, b >= 0
FAdd(a, b) ==
    LET e == FExpMin(a, b)
    IN  FRound(0, BAdd(FAlign(a, e), FAlign(b, e)), e)

\* a - b for a, b >= 0
FSub(a, b) ==
    LET e == FExpMin(a, b)
        x == FAlign(a, e)
        z == FAlign(b, e)
    IN  IF BCmp(x, z) >= 0 THEN FRound(0, BSub(x, z), e)
        ELSE FRound(1, BSub(z, x), e)

\* a <= b, a < b on floats
FLe(a, b) ==
    IF a.sign = 1 /\ b.sign = 0 THEN TRUE
    ELSE IF a.sign = 0 /\ b.sign = 1 THEN a.m = <<>> /\ b.m = <<>>
    ELSE IF a.sign = 0 THEN FCmpMag(a, b) <= 0
    ELSE FCmpMag(a, b) >= 0

FLt(a, b) == FLe(a, b) /\ a # b


\* --------------------------------------------------------- numpy helpers
RECURSIVE Insert(_, _)
\* v put in its place in the ascending sequence s
Insert(s, v) ==
    IF s = <<>> THEN <<v>>
    ELSE IF v <= Head(s) THEN <<v>> \o s
    ELSE <<Head(s)>> \o Insert(Tail(s), v)

RECURSIVE SortSeq(_)
\* ar.sort(): the elements of s in ascending order
SortSeq(s) == IF s = <<>> THEN <<>> ELSE Insert(SortSeq(Tail(s)), Head(s))

\* variant of Mask: every position starts a new run
Mask_AllTrue(aux) == [i \in 1..Len(aux) |-> TRUE]

\* mask[:1] = True; mask[1:] = aux[1:] != aux[:-1]
Mask(aux) == [i \in 1..Len(aux) |-> IF i = 1 THEN TRUE ELSE aux[i] # aux[i - 1]]

RECURSIVE NonZero(_, _)
\* np.nonzero(mask): the 0-based positions i.. that hold True
NonZero(mask, i) ==
    IF i > Len(mask) THEN <<>>
    ELSE (IF mask[i] THEN <<i - 1>> ELSE <<>>) \o NonZero(mask, i + 1)

\* variant of Diff: run lengths counted inclusively
Diff_Inclusive(idx) == [i \in 1..(Len(idx) - 1) |-> idx[i + 1] - idx[i] + 1]

\* np.diff(idx)
Diff(idx) == [i \in 1..(Len(idx) - 1) |-> idx[i + 1] - idx[i]]

\* variant of UniqueAux: the sort left out
UniqueAux_Unsorted(ar) == ar

\* np.unique works on ar.flatten(), a copy: the elements it sorts
UniqueAux(ar) == SortSeq(ar)

\* first result of np.unique: aux[mask]
UniqueValues(ar) ==
    LET aux == UniqueAux(ar)
        nz  == NonZero(Mask(aux), 1)
    IN  [i \in 1..Len(nz) |-> aux[nz[i] + 1]]

\* variant of UniqueCounts: mask.size not appended, the last run is lost
UniqueCounts_NoEnd(ar) == Diff(NonZero(Mask(UniqueAux(ar)), 1))

\* second result of np.unique(ar, return_counts=True):
\* np.diff(np.concatenate(np.nonzero(mask) + ([mask.size],)))
UniqueCounts(ar) ==
    LET aux == UniqueAux(ar)
    IN  Diff(NonZero(Mask(aux), 1) \o <<Len(aux)>>)

\* variant of ArgAfterUnique: the sort done in place on the caller's array
ArgAfterUnique_InPlace(ar) == SortSeq(ar)

\* what the caller's array holds after np.unique(ar): flatten() copied it
ArgAfterUnique(ar) == ar

\* variant of TrueDivide: division by the size of the table
TrueDivide_ByTableSize(counts, n) ==
    [i \in 1..Len(counts) |-> FDivInt(counts[i], Len(counts))]

\* counts / n: elementwise true division of an int64 array by an int
TrueDivide(counts, n) == [i \in 1..Len(counts) |-> FDivInt(counts[i], n)]

\* variant of Square: the power left out
Square_Identity(p) == p

\* p**2: elementwise square
Square(p) == [i \in 1..Len(p) |-> FMul(p[i], p[i])]

RECURSIVE SumFrom(_, _, _)
\* res += a[i] for i.. in index order
SumFrom(a, i, res) ==
    IF i > Len(a) THEN res ELSE SumFrom(a, i + 1, FAdd(res, a[i]))

\* np.sum of a float64 vector of fewer than 8 elements: numpy's pairwise
\* summation adds such a vector in index order, starting from 0.
NpSum(a) == SumFrom(a, 1, FZero)

\* variant of GiniCounts: the two results of np.unique taken in the wrong order
GiniCounts_Values(ar) == UniqueValues(ar)

\* _, counts = np.unique(y, return_counts=True)
GiniCounts(ar) == UniqueCounts(ar)

\* p = counts / len(y)
GiniP(c, n) == TrueDivide(c, n)

\* variant of GiniReturn: the sum of squares returned, not its complement
GiniReturn_SumOnly(q) == NpSum(Square(q))

\* return 1 - np.sum( p**2 )
GiniReturn(q) == FSub(FOne, NpSum(Square(q)))

\* ------------------------------------------------------------ the callers
\* label values: discrete, not contiguous, 0 and 1 among them
Labels == {i * i : i \in 0..(NumLabels - 1)}

\* the label sequences of length 0..MaxLen
LabelSeqs == UNION {[1..n -> Labels] : n \in 0..MaxLen}

\* the injective renamings of label values
Renamings == {f \in [Labels -> Labels] : \A a, b \in Labels : f[a] = f[b] => a = b}

VARIABLES
    y,       \* the caller's label array
    pc,      \* "ready": y is about to be passed to gini; "returned": gini returned
    exc,     \* the exception the call raised, "none" if it returned a value
    uniq,    \* local _ of the last call
    counts,  \* local counts of the last call
    p,       \* local p of the last call
    ret,     \* value returned by the last call
    ret0,    \* the value the caller kept from the call before the last one
    rel      \* how the caller made y from the array of that call:
             \* "first" (no such call), "same", "perm", "rename"

vars == <<y, pc, exc, uniq, counts, p, ret, ret0, rel>>

Init ==
    /\ y \in LabelSeqs
    /\ pc = "ready"
    /\ exc = "none"
    /\ uniq = <<>>
    /\ counts = <<>>
    /\ p = <<>>
    /\ ret = FZero
    /\ ret0 = FZero
    /\ rel = "first"

\* one call gini(y), statement by statement.  No statement raises for
\* integer labels: np.unique of an empty array gives empty counts, an empty
\* array divided by len(y) = 0 is the empty array, and np.sum of it is 0.0.
gini ==
    /\ pc = "ready"
    /\ uniq' = UniqueValues(y)
    /\ counts' = GiniCounts(y)
    /\ y' = ArgAfterUnique(y)
    /\ p' = GiniP(counts', Len(y'))
    /\ ret' = GiniReturn(p')
    /\ exc' = "none"
    /\ pc' = "returned"
    /\ UNCHANGED <<ret0, rel>>

\* the caller keeps the result and calls again on the same array
Repeat ==
    /\ pc = "returned" /\ rel = "first"
    /\ ret0' = ret
    /\ rel' = "same"
    /\ pc' = "ready"
    /\ UNCHANGED <<y, exc, uniq, counts, p, ret>>

\* the caller keeps the result and calls again on y with two positions,
\* holding different labels, swapped
Permute ==
    /\ pc = "returned" /\ rel = "first"
    /\ \E i, j \in 1..Len(y) :
          /\ i < j /\ y[i] # y[j]
          /\ y' = [y EXCEPT ![i] = y[j], ![j] = y[i]]
    /\ ret0' = ret
    /\ rel' = "perm"
    /\ pc' = "ready"
    /\ UNCHANGED <<exc, uniq, counts, p, ret>>

\* the caller keeps the result and calls again on y with its labels renamed
Rename ==
    /\ pc = "returned" /\ rel = "first"
    /\ \E f \in Renamings : y' = [i \in 1..Len(y) |-> f[y[i]]]
    /\ ret0' = ret
    /\ rel' = "rename"
    /\ pc' = "ready"
    /\ UNCHANGED <<exc, uniq, counts, p, ret>>

Next == gini \/ Repeat \/ Permute \/ Rename

Spec == Init /\ [][Next]_vars

\* ------------------------------------------- vocabulary of the properties
Range(s) == {s[i] : i \in 1..Len(s)}

\* number of positions of s holding v
Count(s, v) == Cardinality({i \in 1..Len(s) : s[i] = v})

\* number of distinct label values of s
Distinct(s) == Cardinality(Range(s))

RECURSIVE SumSeq(_)
SumSeq(s) == IF s = <<>> THEN 0 ELSE Head(s) + SumSeq(Tail(s))

SetMin(S) == CHOOSE v \in S : \A w \in S : v <= w

RECURSIVE SumSet(_, _)
\* sum of c[v] over v in S
SumSet(S, c) ==
    IF S = {} THEN 0 ELSE LET v == SetMin(S) IN c[v] + SumSet(S \ {v}, c)

\* the tolerance 1e-9, as its inverse
TolInv == 1000 * 1000 * 1000

\* -1, 0, 1 comparison of the magnitude of float f with the rational A/B
\* (A, B naturals in limbs, B > 0), in exact arithmetic
FCmpRat(f, A, B) ==
    LET k == IF f.e < 0 THEN 0 - f.e ELSE 0
        l == IF f.e > 0 THEN f.e ELSE 0
    IN  BCmp(BShl(BMul(f.m, B), l), BShl(A, k))

\* |f - a/b| <= 1e-9 in exact arithmetic, for integers a >= 0, b > 0
FWithinRat(f, a, b) ==
    LET T  == BFromInt(TolInv)
        aT == BMul(BFromInt(a), T)
        bT == BMul(BFromInt(b), T)
        bb == BFromInt(b)
    IN  IF f.sign = 1
        THEN BCmp(bb, aT) >= 0 /\ FCmpRat(f, BSub(bb, aT), bT) <= 0
        ELSE /\ FCmpRat(f, BAdd(aT, bb), bT) <= 0
             /\ BCmp(aT, bb) < 0 \/ FCmpRat(f, BSub(aT, bb), bT) >= 0

\* f <= a/b + 1e-9 in exact arithmetic, for integers a >= 0, b > 0
FLeRatTol(f, a, b) ==
    LET T == BFromInt(TolInv)
    IN  f.sign = 1 \/
        FCmpRat(f, BAdd(BMul(BFromInt(a), T), BFromInt(b)), BMul(BFromInt(b), T)) <= 0

\* |a - b| <= 1e-9 in exact arithmetic, for floats a, b >= 0
FWithin(a, b) ==
    LET e == FExpMin(a, b)
        x == FAlign(a, e)
        z == FAlign(b, e)
        d == IF BCmp(x, z) >= 0 THEN BSub(x, z) ELSE BSub(z, x)
        k == IF e < 0 THEN 0 - e ELSE 0
        l == IF e > 0 THEN e ELSE 0
    IN  BCmp(BShl(BMul(d, BFromInt(TolInv)), l), BShl(<<1>>, k)) <= 0

FHalf == FDivInt(1, 2)

Returned == pc = "returned"

\* the exact value of 1 - sum of (count(i)/len)^2, as numerator over Len(s)^2
ExactNum(s) == Len(s) * Len(s) - SumSet(Range(s), [v \in Range(s) |-> Count(s, v) * Count(s, v)])

RECURSIVE SumSqOver(_, _, _)
\* acc + the float64 squares of count(v)/len(s) for v in S, ascending
SumSqOver(S, s, acc) ==
    IF S = {} THEN acc
    ELSE LET v == SetMin(S)
             q == FDivInt(Count(s, v), Len(s))
         IN  SumSqOver(S \ {v}, s, FAdd(acc, FMul(q, q)))

\* every label of s occurs the same number of times
Uniform(s) == \A v, w \in Range(s) : Count(s, v) = Count(s, w)

\* C1: for non-empty y, gini(y) is 1 minus the sum over the distinct labels
\* i of y of (count(i)/len(y))^2, count(i) the number of positions holding i
\* (in float64, and within 1e-9 of the exact value); gini([0,0,0,1]) = 0.375
\* and 1 - gini([0,0,0,1]) = 0.625.
C1_GiniFormula ==
    (Returned /\ Len(y) > 0) =>
        /\ ret = FSub(FOne, SumSqOver(Range(y), y, FZero))
        /\ FWithinRat(ret, ExactNum(y), Len(y) * Len(y))
        /\ y = <<0, 0, 0, 1>> =>
              (ret = FDivInt(3, 8) /\ FSub(FOne, ret) = FDivInt(5, 8))

C1_Witness == Returned /\ y = <<0, 0, 0, 1>> /\ ret = FDivInt(3, 8)

\* C2: for non-empty y, gini(y) = 0 iff y has exactly one distinct label;
\* with two or more distinct labels gini(y) > 0.
C2_ZeroIffPure ==
    (Returned /\ Len(y) > 0) =>
        /\ (ret = FZero) <=> (Distinct(y) = 1)
        /\ Distinct(y) >= 2 => FLt(FZero, ret)

C2_Witness == Returned /\ Len(y) = MaxLen /\ Distinct(y) = 1 /\ ret = FZero

\* C3: gini is invariant under permutation of its input: the call on a
\* reordering of an array returns the value the call on that array returned.
C3_PermutationInvariant ==
    (Returned /\ rel = "perm") => ret = ret0

C3_Witness ==
    /\ Returned /\ rel = "perm" /\ ret = ret0
    /\ Distinct(y) = 3 /\ SortSeq(y) # y /\ FLt(FZero, ret)

C5_Original ==
    (Returned /\ Len(y) > 0 /\ Uniform(y)) =>
        ret = FDivInt(Distinct(y) - 1, Distinct(y))

\* C5 (amended): when k >= 1 distinct labels each occur the same number of
\* times, gini(y) equals (k-1)/k within 1e-9; gini([0,0,1,1]) = 0.5 exactly.
C5_UniformWithinTolerance ==
    (Returned /\ Len(y) > 0 /\ Uniform(y)) =>
        /\ FWithinRat(ret, Distinct(y) - 1, Distinct(y))
        /\ y = <<0, 0, 1, 1>> => ret = FHalf

C5_Witness ==
    /\ Returned /\ y = <<0, 1, 4>>
    /\ ret # FDivInt(2, 3)
    /\ FWithinRat(ret, 2, 3)

\* C6: gini on an empty label sequence yields the Empty Input error and
\* never an ordinary impurity score.
C6_EmptyRaises ==
    (Returned /\ Len(y) = 0) => exc = "EmptyInput"

C8_Original ==
    (Returned /\ rel = "rename" /\ Len(y) > 0) => ret = ret0

\* C8 (amended): for every non-empty y and every injective renaming f of the
\* label values, gini(map(f, y)) equals gini(y) within 1e-9.
C8_RenamingWithinTolerance ==
    (Returned /\ rel = "rename" /\ Len(y) > 0) => FWithin(ret, ret0)

C8_Witness ==
    /\ Returned /\ rel = "rename" /\ Distinct(y) = 3
    /\ ret # ret0 /\ FWithin(ret, ret0)

\* numerators over Len(y)^2 of the three formulations, on the class counts c
PairwiseNum(c) ==
    SumSeq([i \in 1..Len(c) |->
              c[i] * SumSeq([j \in 1..Len(c) |-> IF j = i THEN 0 ELSE c[j]])])

ComplementNum(c, n) == SumSeq([i \in 1..Len(c) |-> c[i] * (n - c[i])])

OneMinusSquaresNum(c, n) == n * n - SumSeq([i \in 1..Len(c) |-> c[i] * c[i]])

\* C9: for the class frequencies p_i = counts_i/len(y) of a non-empty y the
\* pairwise-product sum, the complement-probability sum and 1 minus the sum
\* of squares agree in exact arithmetic (gini returns the float64 of the last).
C9_FormulationsAgree ==
    (Returned /\ Len(y) > 0) =>
        /\ PairwiseNum(counts) = ComplementNum(counts, Len(y))
        /\ ComplementNum(counts, Len(y)) = OneMinusSquaresNum(counts, Len(y))
        /\ FWithinRat(ret, PairwiseNum(counts), Len(y) * Len(y))

C9_Witness ==
    /\ Returned /\ Len(counts) = 3 /\ Len(y) = MaxLen
    /\ PairwiseNum(counts) = OneMinusSquaresNum(counts, Len(y))
    /\ PairwiseNum(counts) > 0

\* C10: the frequency table of gini partitions the input: one entry per
\* distinct label of y, every count at least 1, the counts sum to len(y); for
\* non-empty y every p_i is in (0, 1] and the p_i = count_i/len(y) sum to 1.
C10_FrequencyTable ==
    Returned =>
        /\ Len(counts) = Distinct(y)
        /\ Len(uniq) = Len(counts)
        /\ Range(uniq) = Range(y)
        /\ \A i \in 1..Len(counts) : counts[i] >= 1 /\ counts[i] = Count(y, uniq[i])
        /\ SumSeq(counts) = Len(y)
        /\ Len(y) > 0 =>
              /\ Len(p) = Len(counts)
              /\ \A i \in 1..Len(p) : FLt(FZero, p[i]) /\ FLe(p[i], FOne)

C10_Witness ==
    /\ Returned /\ Len(y) = MaxLen /\ Len(counts) = 3
    /\ SumSeq(counts) = MaxLen
    /\ \E i \in 1..3 : counts[i] >= 2


====
